---------------------------- MODULE Spec2Model ----------------------------
(***************************************************************************)
(* A model of py-gameoflife's grid engine (src/core.py, class GameOfLife)  *)
(* and of the way src/graphic.py holds the array get_matrix returns.       *)
(*                                                                         *)
(* A numpy array is a sequence of rows, each a sequence of cells.  A cell  *)
(* is 0 (dead, False) or 1 (alive, True): numpy casts bool to int and back *)
(* along this correspondence.  The source indexes from 0; At and the       *)
(* operators below take the source's 0-based (and negative) indices.       *)
(*                                                                         *)
(* Specifications:                                                         *)
(*   SpecGen      next_gen, with and without growth, from every 0/1 grid   *)
(*   Spec         next_gen, edit_state, get_cell, load_conf by coordinate  *)
(*   SpecShape    next_gen, edit_state, load_conf on grids that can grow   *)
(*   SpecSnap     the engine beside a holder of get_matrix's array         *)
(*   SpecPattern  next_gen from a seeded blinker or block                  *)
(*   SpecPlane    next_gen with growth beside the unbounded automaton      *)
(*   SpecConf     construction from a file, new_conf and load_conf on text *)
(*   SpecShell    __shell_run with a KeyboardInterrupt at any statement    *)
(***************************************************************************)
EXTENDS Integers, Sequences, FiniteSets

VARIABLES
    matrix,   \* self.matrix: the contents of the array the engine refers to
    shape,    \* self.shape: the stored (rows, cols)
    call,     \* the call that produced this state, with its arguments
    ret,      \* what that call returned or raised
    pre,      \* history: self.matrix as it was when that call started
    snap,     \* the array object a caller of get_matrix holds
    engine,   \* whether __init__ has returned an engine
    file,     \* the configuration file at the path new_conf / load_conf use
    numpy,    \* the numpy generation the program runs on
    shell,    \* __shell_run: its position, counter i, terminal and exit status
    plane,    \* history: the seed's live cells evolved on the unbounded plane
    origin    \* history: rows inserted at the top, columns inserted at the left

vars == <<matrix, shape, call, ret, pre, snap, engine, file, numpy, shell, plane, origin>>

\* What the calls on the grid leave alone.
beside == <<engine, file, numpy, shell, plane, origin>>

---------------------------------------------------------------------------
(* Bounds of the model.                                                    *)

\* SpecPlane: largest side of a seed, largest number of cells inside its dead
\* outer lines, and the largest side the grid is followed to.
PlaneDim == 5
PlaneCells == 9
PlaneCap == 8
\* SpecConf: most lines of a configuration file, most elements on a line, and
\* most elements in the file.
FileLines == 2
FileWidth == 2
FileCells == 4
\* SpecConf: most cells of an array a load is followed to.
LoadCells == 10
\* SpecShell: largest side and cell count of the grid run() starts from, and
\* the number of iterations of the loop that are followed.
ShellDim == 3
ShellCells == 9
ShellGens == 2
\* Largest row / column count of a grid a specification starts from.
GenDim == 4
\* Largest number of cells of a grid SpecGen starts from.
GenCells == 12
\* Largest row / column count and cell count of a grid in Spec.
ApiDim == 3
ApiCells == 6
\* Largest cell count of a configuration load_conf is given after construction.
ConfCells == 2
\* Largest row / column count and cell count of a grid in SpecShape.
ShapeDim == 3
ShapeCells == 9
\* Largest row / column count and cell count of a grid in SpecSnap.
SnapDim == 2
SnapCells == 4
\* Largest row / column count of a grid SpecPattern starts from.
PatDim == 6

---------------------------------------------------------------------------
(* numpy arrays.                                                           *)

Min(a, b) == IF a < b THEN a ELSE b
Max(a, b) == IF a > b THEN a ELSE b

Rows(m) == Len(m)
Cols(m) == IF Len(m) = 0 THEN 0 ELSE Len(m[1])

\* matrix[r, c] for in-range 0-based r, c.
At(m, r, c) == m[r + 1][c + 1]

\* Python's index normalisation: a negative index counts from the end.
NormIndex(i, n) == IF i < 0 THEN i + n ELSE i

\* Whether indexing a length-n axis with i succeeds (no IndexError).
IndexOk(i, n) == NormIndex(i, n) >= 0 /\ NormIndex(i, n) < n

\* np.zeros((r, c))
Zeros(r, c) == [i \in 1..r |-> [j \in 1..c |-> 0]]

\* The (rows, cols) of an array: matrix.shape
ShapeOf(m) == <<Rows(m), Cols(m)>>

\* All r x c arrays of 0/1 cells.
Grids(r, c) == [1..r -> [1..c -> {0, 1}]]

---------------------------------------------------------------------------
(* __update_grid: the four growth checks, in the order of the source.  A   *)
(* grow state is the pair (self.matrix, self.shape) and the exception      *)
(* raised so far ("" for none).                                            *)

\* any(self.matrix[row, i] for i in range(n)): "True", "False", or
\* "IndexError" when an index is out of range before a live cell is found.
AnyInRow(m, row, n) ==
    IF n <= 0 THEN "False"
    ELSE IF ~IndexOk(row, Rows(m)) THEN "IndexError"
    ELSE LET r == NormIndex(row, Rows(m))
         IN  IF \E i \in 0..(Min(n, Cols(m)) - 1) : At(m, r, i) # 0 THEN "True"
             ELSE IF n > Cols(m) THEN "IndexError"
             ELSE "False"

\* any(self.matrix[j, col] for j in range(n))
AnyInCol(m, col, n) ==
    IF n <= 0 THEN "False"
    ELSE IF ~IndexOk(col, Cols(m)) THEN "IndexError"
    ELSE LET c == NormIndex(col, Cols(m))
         IN  IF \E j \in 0..(Min(n, Rows(m)) - 1) : At(m, j, c) # 0 THEN "True"
             ELSE IF n > Rows(m) THEN "IndexError"
             ELSE "False"

\* np.insert(matrix, 0, 0, axis = 0)
InsertRowTop(m) == <<[j \in 1..Cols(m) |-> 0]>> \o m

\* np.insert(matrix, 0, 0, axis = 1)
InsertColLeft(m) == [i \in 1..Rows(m) |-> <<0>> \o m[i]]

\* __reload_shape
ReloadShape(g) == [g EXCEPT !.shape = ShapeOf(g.matrix)]

Raise(g, e) == [g EXCEPT !.err = e]

\* __reload_shape left out after the bottom insertion.
GrowBottomStale(g) ==
    IF g.err # "" THEN g
    ELSE LET a == AnyInRow(g.matrix, -2, g.shape[2])
         IN  IF a = "IndexError" THEN Raise(g, "IndexError")
             ELSE IF a = "False" THEN g
             ELSE IF g.shape[2] # Cols(g.matrix) THEN Raise(g, "ValueError")
             ELSE [g EXCEPT !.matrix = g.matrix \o <<[j \in 1..g.shape[2] |-> 0]>>]

\* The top check looks at the edge row 0 instead of row 1.
GrowTopEdge(g) ==
    IF g.err # "" THEN g
    ELSE LET a == AnyInRow(g.matrix, 0, g.shape[2])
         IN  IF a = "IndexError" THEN Raise(g, "IndexError")
             ELSE IF a = "False" THEN g
             ELSE ReloadShape([g EXCEPT !.matrix = InsertRowTop(g.matrix)])

\* core.py 64-66: row 1 has a live cell -> a dead row is inserted at the top.
GrowTop(g) ==
    IF g.err # "" THEN g
    ELSE LET a == AnyInRow(g.matrix, 1, g.shape[2])
         IN  IF a = "IndexError" THEN Raise(g, "IndexError")
             ELSE IF a = "False" THEN g
             ELSE ReloadShape([g EXCEPT !.matrix = InsertRowTop(g.matrix)])

\* core.py 67-69: row -2 has a live cell -> a row of shape[1] zeros is
\* appended (np.append raises ValueError when the row's length differs).
GrowBottom(g) ==
    IF g.err # "" THEN g
    ELSE LET a == AnyInRow(g.matrix, -2, g.shape[2])
         IN  IF a = "IndexError" THEN Raise(g, "IndexError")
             ELSE IF a = "False" THEN g
             ELSE IF g.shape[2] # Cols(g.matrix) THEN Raise(g, "ValueError")
             ELSE ReloadShape(
                    [g EXCEPT !.matrix = g.matrix \o <<[j \in 1..g.shape[2] |-> 0]>>])

\* The left check looks at the edge column 0 instead of column 1.
GrowLeftEdge(g) ==
    IF g.err # "" THEN g
    ELSE LET a == AnyInCol(g.matrix, 0, g.shape[1])
         IN  IF a = "IndexError" THEN Raise(g, "IndexError")
             ELSE IF a = "False" THEN g
             ELSE ReloadShape([g EXCEPT !.matrix = InsertColLeft(g.matrix)])

\* core.py 70-72: column 1 has a live cell -> a dead column is inserted left.
GrowLeft(g) ==
    IF g.err # "" THEN g
    ELSE LET a == AnyInCol(g.matrix, 1, g.shape[1])
         IN  IF a = "IndexError" THEN Raise(g, "IndexError")
             ELSE IF a = "False" THEN g
             ELSE ReloadShape([g EXCEPT !.matrix = InsertColLeft(g.matrix)])

\* The right check looks at the edge column -1 instead of column -2.
GrowRightEdge(g) ==
    IF g.err # "" THEN g
    ELSE LET a == AnyInCol(g.matrix, -1, g.shape[1])
         IN  IF a = "IndexError" THEN Raise(g, "IndexError")
             ELSE IF a = "False" THEN g
             ELSE IF g.shape[1] # Rows(g.matrix) THEN Raise(g, "ValueError")
             ELSE ReloadShape(
                    [g EXCEPT !.matrix = [i \in 1..Rows(g.matrix) |-> g.matrix[i] \o <<0>>]])

\* core.py 73-75: column -2 has a live cell -> a column of shape[0] zeros is
\* appended (ValueError when its length differs from the row count).
GrowRight(g) ==
    IF g.err # "" THEN g
    ELSE LET a == AnyInCol(g.matrix, -2, g.shape[1])
         IN  IF a = "IndexError" THEN Raise(g, "IndexError")
             ELSE IF a = "False" THEN g
             ELSE IF g.shape[1] # Rows(g.matrix) THEN Raise(g, "ValueError")
             ELSE ReloadShape(
                    [g EXCEPT !.matrix = [i \in 1..Rows(g.matrix) |-> g.matrix[i] \o <<0>>]])

UpdateGrid(g) == GrowRight(GrowLeft(GrowBottom(GrowTop(g))))

---------------------------------------------------------------------------
(* next_gen: the vectorised rule.                                          *)

\* int_matrix[r0 : r0 + rows - 2, c0 : c0 + cols - 2]: the eight shifted
\* slices of the source are Shifted(m, r0, c0) for r0, c0 in 0..2 (":-2" is
\* offset 0, "1:-1" offset 1, "2:" offset 2); each has max(rows - 2, 0) rows
\* and max(cols - 2, 0) columns.
Shifted(m, r0, c0) ==
    [i \in 1..Max(Rows(m) - 2, 0) |->
        [j \in 1..Max(Cols(m) - 2, 0) |-> m[i + r0][j + c0]]]

\* The sum without the slice int_matrix[2:, 2:].
InnerSumDropped(m) ==
    LET a == Shifted(m, 0, 0)  b == Shifted(m, 0, 1)  c == Shifted(m, 0, 2)
        d == Shifted(m, 1, 0)                         e == Shifted(m, 1, 2)
        f == Shifted(m, 2, 0)  g == Shifted(m, 2, 1)
    IN  [i \in 1..Max(Rows(m) - 2, 0) |->
            [j \in 1..Max(Cols(m) - 2, 0) |->
                  a[i][j] + b[i][j] + c[i][j]
                + d[i][j]           + e[i][j]
                + f[i][j] + g[i][j]]]

\* core.py 92-96: the sum of the eight shifted slices.
InnerSum(m) ==
    LET a == Shifted(m, 0, 0)  b == Shifted(m, 0, 1)  c == Shifted(m, 0, 2)
        d == Shifted(m, 1, 0)                         e == Shifted(m, 1, 2)
        f == Shifted(m, 2, 0)  g == Shifted(m, 2, 1)  h == Shifted(m, 2, 2)
    IN  [i \in 1..Max(Rows(m) - 2, 0) |->
            [j \in 1..Max(Cols(m) - 2, 0) |->
                  a[i][j] + b[i][j] + c[i][j]
                + d[i][j]           + e[i][j]
                + f[i][j] + g[i][j] + h[i][j]]]

\* core.py 91-92: neigh = zeros(shape); neigh[1:-1, 1:-1] = the sum.
Neigh(m) ==
    LET inner == InnerSum(m)
    IN  [i \in 1..Rows(m) |->
            [j \in 1..Cols(m) |->
                IF i >= 2 /\ i <= Rows(m) - 1 /\ j >= 2 /\ j <= Cols(m) - 1
                THEN inner[i - 1][j - 1]
                ELSE 0]]

\* The survival term is left out: only neigh == 3 keeps or makes a cell alive.
RuleBirthOnly(m) ==
    LET neigh == Neigh(m)
    IN  [i \in 1..Rows(m) |->
            [j \in 1..Cols(m) |-> IF neigh[i][j] = 3 THEN 1 ELSE 0]]

\* The result keeps the shape of the slices, neigh[1:-1, 1:-1], instead of
\* the shape of the grid.
RuleInnerOnly(m) ==
    LET inner == InnerSum(m)
    IN  [i \in 1..Max(Rows(m) - 2, 0) |->
            [j \in 1..Max(Cols(m) - 2, 0) |->
                IF inner[i][j] = 3 \/ (m[i + 1][j + 1] = 1 /\ inner[i][j] = 2)
                THEN 1 ELSE 0]]

\* core.py 97-100: logical_or(neigh == 3, logical_and(int_matrix == 1, neigh == 2))
Rule(m) ==
    LET neigh == Neigh(m)
    IN  [i \in 1..Rows(m) |->
            [j \in 1..Cols(m) |->
                IF neigh[i][j] = 3 \/ (m[i][j] = 1 /\ neigh[i][j] = 2)
                THEN 1 ELSE 0]]

\* next_gen as a function of (self.matrix, self.shape): the grow state it
\* ends in.  An exception of __update_grid leaves what was grown so far.
NextGenOf(m, sh, update_grid) ==
    LET g0 == [matrix |-> m, shape |-> sh, err |-> ""]
        g  == IF update_grid THEN UpdateGrid(g0) ELSE g0
    IN  IF g.err # "" THEN g ELSE [g EXCEPT !.matrix = Rule(g.matrix)]

---------------------------------------------------------------------------
(* Calls and results.                                                      *)

Call(op, x, y, state, update_grid) ==
    [op |-> op, x |-> x, y |-> y, state |-> state, update_grid |-> update_grid]

\* A result: kind "None" (val <<>>), "coords" (val the tuple (x, y)),
\* "ndarray" (the array object self.matrix refers to), or the name of the
\* exception raised.
Ret(kind, val) == [kind |-> kind, val |-> val]

\* No file at the path.
NoFile == [exists |-> FALSE, text |-> <<>>]

\* run() has not been called.
NoShell == [pc |-> "off", i |-> 0, calls |-> 0, shown |-> 0, screen |-> <<>>,
            seed |-> <<>>, sigint |-> FALSE, interrupted |-> FALSE,
            exited |-> FALSE, status |-> 0]

\* An engine used through its grid calls only: constructed, nothing written
\* to a file, no shell loop.
GridOnly ==
    /\ engine = TRUE
    /\ file = NoFile
    /\ numpy = "1.24-1.26"
    /\ shell = NoShell
    /\ plane = {}
    /\ origin = <<0, 0>>

NoSnap == [held |-> FALSE, alias |-> FALSE, val |-> <<>>]

\* The holder's array once self.matrix is rebound to a new array object: it
\* keeps the old object, whose contents were old.
Detach(s, old) ==
    IF s.held /\ s.alias THEN [held |-> TRUE, alias |-> FALSE, val |-> old] ELSE s

---------------------------------------------------------------------------
(* Actions.                                                                *)

\* core.py 87-100
NextGenGrid(update_grid) ==
    \E g \in {NextGenOf(matrix, shape, update_grid)} :
        /\ matrix' = g.matrix
        /\ shape' = g.shape
        /\ call' = Call("next_gen", 0, 0, FALSE, update_grid)
        /\ ret' = Ret(IF g.err = "" THEN "None" ELSE g.err, <<>>)
        /\ pre' = matrix
        \* self.matrix is rebound unless __update_grid raised before inserting
        /\ snap' = IF g.err # "" /\ ShapeOf(g.matrix) = ShapeOf(matrix)
                   THEN snap ELSE Detach(snap, matrix)

NextGen(update_grid) == NextGenGrid(update_grid) /\ UNCHANGED beside

\* self.matrix[x] = state: the whole row is written.
EditStateRow(x, y, state) ==
    /\ IF IndexOk(x, Rows(matrix)) /\ IndexOk(y, Cols(matrix))
       THEN /\ matrix' = [matrix EXCEPT ![NormIndex(x, Rows(matrix)) + 1] =
                              [j \in 1..Cols(matrix) |-> IF state THEN 1 ELSE 0]]
            /\ ret' = Ret("None", <<>>)
       ELSE /\ matrix' = matrix
            /\ ret' = Ret("IndexError", <<>>)
    /\ call' = Call("edit_state", x, y, state, FALSE)
    /\ pre' = matrix
    /\ UNCHANGED <<shape, snap>>
    /\ UNCHANGED beside

\* core.py 102-104: self.matrix[x][y] = state, in place.
EditState(x, y, state) ==
    /\ IF IndexOk(x, Rows(matrix)) /\ IndexOk(y, Cols(matrix))
       THEN /\ matrix' = [matrix EXCEPT ![NormIndex(x, Rows(matrix)) + 1]
                                          [NormIndex(y, Cols(matrix)) + 1] =
                              IF state THEN 1 ELSE 0]
            /\ ret' = Ret("None", <<>>)
       ELSE /\ matrix' = matrix
            /\ ret' = Ret("IndexError", <<>>)
    /\ call' = Call("edit_state", x, y, state, FALSE)
    /\ pre' = matrix
    /\ UNCHANGED <<shape, snap>>
    /\ UNCHANGED beside

\* core.py 79-85: the element is read and dropped; coords is returned.
GetCell(x, y) ==
    /\ ret' = IF IndexOk(x, Rows(matrix)) /\ IndexOk(y, Cols(matrix))
              THEN Ret("coords", <<x, y>>)
              ELSE Ret("None", <<>>)
    /\ call' = Call("get_cell", x, y, FALSE, FALSE)
    /\ pre' = matrix
    /\ UNCHANGED <<matrix, shape, snap>>
    /\ UNCHANGED beside

\* core.py 155-166 for an existing file whose lines parse to the rows of
\* conf: self.matrix = np.asarray(conf), then __reload_shape.
LoadConf(conf) ==
    /\ matrix' = conf
    /\ shape' = ShapeOf(conf)
    /\ call' = Call("load_conf", 0, 0, FALSE, FALSE)
    /\ ret' = Ret("None", <<>>)
    /\ pre' = matrix
    /\ snap' = Detach(snap, matrix)
    /\ UNCHANGED beside

\* core.py 77: the array object itself is returned (graphic.py 22, 35).
GetMatrix ==
    /\ snap' = [held |-> TRUE, alias |-> TRUE, val |-> <<>>]
    /\ call' = Call("get_matrix", 0, 0, FALSE, FALSE)
    /\ ret' = Ret("ndarray", <<>>)
    /\ pre' = matrix
    /\ UNCHANGED <<matrix, shape>>
    /\ UNCHANGED beside

\* The contents of the array the holder was given.
SnapContents == IF snap.alias THEN matrix ELSE snap.val

\* The holder of the returned array writes held[x][y] = state.
HolderWrite(x, y, state) ==
    /\ snap.held
    /\ x \in 0..(Rows(SnapContents) - 1)
    /\ y \in 0..(Cols(SnapContents) - 1)
    /\ IF snap.alias
       THEN /\ matrix' = [matrix EXCEPT ![x + 1][y + 1] = IF state THEN 1 ELSE 0]
            /\ snap' = snap
       ELSE /\ matrix' = matrix
            /\ snap' = [snap EXCEPT !.val[x + 1][y + 1] = IF state THEN 1 ELSE 0]
    /\ call' = Call("holder_write", x, y, state, FALSE)
    /\ ret' = Ret("None", <<>>)
    /\ pre' = matrix
    /\ UNCHANGED shape
    /\ UNCHANGED beside

WithinCap(m, dim, cells) ==
    Rows(m) <= dim /\ Cols(m) <= dim /\ Rows(m) * Cols(m) <= cells

\* next_gen, taken only while the grid it leaves is within the cap.
NextGenCapped(update_grid, dim, cells) ==
    /\ WithinCap(NextGenOf(matrix, shape, update_grid).matrix, dim, cells)
    /\ NextGen(update_grid)

\* The 0/1 configurations of at most cells cells, each side at most dim.
Confs(dim, cells) ==
    UNION {Grids(r, c) : r \in 1..Min(dim, cells), c \in 1..Min(dim, cells)}
        \ {m \in UNION {Grids(r, c) : r \in 1..Min(dim, cells), c \in 1..Min(dim, cells)} :
              Rows(m) * Cols(m) > cells}

\* __init__(height, width): core.py 35, 47.
InitZeros(dim, cells) ==
    /\ \E h \in 1..dim : \E w \in 1..dim :
          /\ h * w <= cells
          /\ shape = <<h, w>>
          /\ matrix = Zeros(h, w)
    /\ call = Call("init", 0, 0, FALSE, FALSE)
    /\ ret = Ret("None", <<>>)
    /\ pre = matrix
    /\ snap = NoSnap
    /\ GridOnly

\* The grids a specification may start from or grow from.
InGenBounds(m) ==
    Rows(m) <= GenDim /\ Cols(m) <= GenDim /\ Rows(m) * Cols(m) <= GenCells

\* __init__ with a configuration (or __random__): any rectangular 0/1 array.
InitGen ==
    /\ \E r \in 1..GenDim : \E c \in 1..GenDim :
          /\ r * c <= GenCells
          /\ matrix \in Grids(r, c)
    /\ shape = ShapeOf(matrix)
    /\ call = Call("init", 0, 0, FALSE, FALSE)
    /\ ret = Ret("None", <<>>)
    /\ pre = matrix
    /\ snap = NoSnap
    /\ GridOnly

NextGenStep == NextGen(FALSE)

NextGenGrow == InGenBounds(matrix) /\ NextGen(TRUE)

NextG == NextGenStep \/ NextGenGrow

SpecGen == InitGen /\ [][NextG]_vars

\* The engine's interface: coordinates from one below -rows to rows.
Init == InitZeros(ApiDim, ApiCells)

CallNextGen == \E u \in BOOLEAN : NextGenCapped(u, ApiDim, ApiCells)

CallEditState ==
    \E x \in (-(Rows(matrix) + 1))..Rows(matrix) :
    \E y \in (-(Cols(matrix) + 1))..Cols(matrix) :
    \E v \in BOOLEAN : EditState(x, y, v)

CallGetCell ==
    \E x \in (-(Rows(matrix) + 1))..Rows(matrix) :
    \E y \in (-(Cols(matrix) + 1))..Cols(matrix) : GetCell(x, y)

CallLoadConf == \E conf \in Confs(ApiDim, ConfCells) : LoadConf(conf)

Next == CallNextGen \/ CallEditState \/ CallGetCell \/ CallLoadConf

Spec == Init /\ [][Next]_vars

\* Growth, edits and loads on grids of up to ShapeCells cells.
InitShape == InitZeros(ShapeDim, ShapeCells)

ShapeNextGen == \E u \in BOOLEAN : NextGenCapped(u, ShapeDim, ShapeCells)

ShapeEditState ==
    \E x \in 0..Rows(matrix) : \E y \in 0..Cols(matrix) :
    \E v \in BOOLEAN : EditState(x, y, v)

ShapeLoadConf == \E conf \in Confs(ShapeDim, ConfCells) : LoadConf(conf)

NextShape == ShapeNextGen \/ ShapeEditState \/ ShapeLoadConf

SpecShape == InitShape /\ [][NextShape]_vars

\* A holder of the array get_matrix returned, beside the engine's calls.
InitSnap == InitZeros(SnapDim, SnapCells)

SnapGetMatrix == GetMatrix

SnapHolderWrite ==
    \E x \in 0..(SnapDim - 1) : \E y \in 0..(SnapDim - 1) :
    \E v \in BOOLEAN : HolderWrite(x, y, v)

SnapEditState ==
    \E x \in 0..(Rows(matrix) - 1) : \E y \in 0..(Cols(matrix) - 1) :
    \E v \in BOOLEAN : EditState(x, y, v)

SnapNextGen == \E u \in BOOLEAN : NextGenCapped(u, SnapDim, SnapCells)

NextSnap == SnapGetMatrix \/ SnapHolderWrite \/ SnapEditState \/ SnapNextGen

SpecSnap == InitSnap /\ [][NextSnap]_vars


\* The rows x cols grid whose live cells are those of the set live.
GridOf(rows, cols, live) ==
    [i \in 1..rows |-> [j \in 1..cols |-> IF <<i - 1, j - 1>> \in live THEN 1 ELSE 0]]

\* Three live cells in a line, as the example of core.py 186-189 sets them
\* with edit_state: along row r, or along column c.
BlinkerH(r, c) == {<<r, c - 1>>, <<r, c>>, <<r, c + 1>>}
BlinkerV(r, c) == {<<r - 1, c>>, <<r, c>>, <<r + 1, c>>}
\* The 2x2 block with top-left cell (r, c).
Block(r, c) == {<<r, c>>, <<r, c + 1>>, <<r + 1, c>>, <<r + 1, c + 1>>}

\* __init__(height, width) followed by the edit_state calls that set up a
\* horizontal blinker or a block anywhere in the grid.
InitPattern ==
    /\ \E rows \in 2..PatDim : \E cols \in 2..PatDim :
          /\ shape = <<rows, cols>>
          /\ \/ \E r \in 0..(rows - 1) : \E c \in 1..(cols - 2) :
                   matrix = GridOf(rows, cols, BlinkerH(r, c))
             \/ \E r \in 0..(rows - 2) : \E c \in 0..(cols - 2) :
                   matrix = GridOf(rows, cols, Block(r, c))
    /\ call = Call("init", 0, 0, FALSE, FALSE)
    /\ ret = Ret("None", <<>>)
    /\ pre = matrix
    /\ snap = NoSnap
    /\ GridOnly

\* core.py 120-123: the shell loop's next_gen().
PatternStep == NextGen(FALSE)

SpecPattern == InitPattern /\ [][PatternStep]_vars

---------------------------------------------------------------------------
(* The transition rule as the documentation states it (core.py 1-19), by   *)
(* direct iteration over the eight neighbours; what the claims compare the *)
(* vectorised computation with.                                            *)

InGrid(m, r, c) == r >= 0 /\ r < Rows(m) /\ c >= 0 /\ c < Cols(m)

Offsets == {d \in (-1..1) \X (-1..1) : d # <<0, 0>>}

\* Live cells among the eight positions adjacent to (r, c); a position
\* outside the grid counts as dead.
LiveNeighbours(m, r, c) ==
    Cardinality({d \in Offsets :
        InGrid(m, r + d[1], c + d[2]) /\ At(m, r + d[1], c + d[2]) = 1})

\* (n == 3) OR (alive AND n == 2), as a 0/1 cell.
Conway(m, r, c) ==
    IF LiveNeighbours(m, r, c) = 3 \/ (At(m, r, c) = 1 /\ LiveNeighbours(m, r, c) = 2)
    THEN 1 ELSE 0

Interior(m, r, c) == r >= 1 /\ r <= Rows(m) - 2 /\ c >= 1 /\ c <= Cols(m) - 2

\* The grid __update_grid hands to the rule when next_gen started from m.
Grown(m) == UpdateGrid([matrix |-> m, shape |-> ShapeOf(m), err |-> ""])

StepDone == call.op = "next_gen" /\ ~call.update_grid
GrowDone == call.op = "next_gen" /\ call.update_grid

---------------------------------------------------------------------------
(* C1.  Every cell of the grid, the outermost rows and columns included,   *)
(* is after next_gen(update_grid=False) what the rule gives on the         *)
(* pre-step grid with every position outside the grid counted as dead.     *)
(* The code leaves neigh at 0 on the outermost rows and columns, so this   *)
(* fails there.                                                            *)
C1_ZeroPaddedRuleEverywhere ==
    StepDone =>
        /\ ShapeOf(matrix) = ShapeOf(pre)
        /\ \A r \in 0..(Rows(pre) - 1) : \A c \in 0..(Cols(pre) - 1) :
              At(matrix, r, c) = Conway(pre, r, c)

(* C2.  After a next_gen that returned, every cell that is not on the      *)
(* outermost row or column is (n == 3) OR (alive AND n == 2) with n        *)
(* counted in the grid the rule was applied to (the pre-step grid; with    *)
(* update_grid the pre-step grid as grown), never in the new grid.         *)
C2_InteriorRuleFromPreStepGrid ==
    (call.op = "next_gen" /\ ret.kind = "None") =>
        LET base == IF call.update_grid THEN Grown(pre).matrix ELSE pre
        IN  /\ ShapeOf(matrix) = ShapeOf(base)
            /\ \A r \in 0..(Rows(base) - 1) : \A c \in 0..(Cols(base) - 1) :
                  Interior(base, r, c) => At(matrix, r, c) = Conway(base, r, c)

\* A step in which a live interior cell with four or more live neighbours
\* died next to an interior cell that was born: the new state of the one
\* is the pre-step neighbour of the other.
C2_Witness ==
    /\ StepDone
    /\ \E r \in 0..(Rows(pre) - 1) : \E c \in 0..(Cols(pre) - 2) :
          /\ Interior(pre, r, c) /\ Interior(pre, r, c + 1)
          /\ At(pre, r, c) = 1 /\ LiveNeighbours(pre, r, c) >= 4
          /\ At(matrix, r, c) = 0
          /\ At(pre, r, c + 1) = 0 /\ At(matrix, r, c + 1) = 1

---------------------------------------------------------------------------
(* Growth.                                                                 *)

LiveCells(m) ==
    {p \in (0..(Rows(m) - 1)) \X (0..(Cols(m) - 1)) : At(m, p[1], p[2]) = 1}

OneLive(m) == Cardinality(LiveCells(m)) = 1

TheLive(m) == CHOOSE p \in LiveCells(m) : TRUE

\* m with t dead rows above, b below, l dead columns left and r right: the
\* cell (i, j) of m is the cell (i + t, j + l) of the result.
Pad(m, t, b, l, r) ==
    [i \in 1..(Rows(m) + t + b) |->
        [j \in 1..(Cols(m) + l + r) |->
            IF i - t >= 1 /\ i - t <= Rows(m) /\ j - l >= 1 /\ j - l <= Cols(m)
            THEN m[i - t][j - l] ELSE 0]]

Flag(b) == IF b THEN 1 ELSE 0

(* C5 as stated, on the grids with at least two rows and two columns       *)
(* (where the call returns, see C6): an otherwise dead grid with its live  *)
(* cell in a row one position inward from an edge has exactly one row more *)
(* after next_gen(update_grid=True), likewise for columns, and the grid    *)
(* the rule is applied to is the old grid with dead lines added around it. *)
(* A 3-row grid with the cell in row 1 gets two rows more.                 *)
C5_ExactlyOneMore ==
    (GrowDone /\ OneLive(pre) /\ Rows(pre) >= 2 /\ Cols(pre) >= 2) =>
        LET p == TheLive(pre)
        IN  /\ p[1] \in {1, Rows(pre) - 2} => Rows(matrix) = Rows(pre) + 1
            /\ p[2] \in {1, Cols(pre) - 2} => Cols(matrix) = Cols(pre) + 1
            /\ \E t \in 0..1 : \E b \in 0..1 : \E l \in 0..1 : \E r \in 0..1 :
                  Grown(pre).matrix = Pad(pre, t, b, l, r)

(* C5, amended.  With the live cell at (r, c) of a rows x cols grid that   *)
(* is otherwise dead, next_gen(update_grid=True) adds one dead row at the  *)
(* top iff r = 1 and one at the bottom iff r = rows - 2 (both on a 3-row   *)
(* grid with r = 1), one dead column at the left iff c = 1 and one at the  *)
(* right iff c = cols - 2; the grid the rule is applied to is the old one  *)
(* with its cells shifted by the top and left insertions.  On a grid with  *)
(* one row the call raises IndexError and changes nothing; with at least   *)
(* two rows and one column it raises IndexError after the row insertions.  *)
C5_OneMorePerNearEdge ==
    (GrowDone /\ OneLive(pre)) =>
        LET p == TheLive(pre)
            R == Rows(pre)
            C == Cols(pre)
            t == Flag(p[1] = 1)
            b == Flag(p[1] = R - 2)
            l == Flag(p[2] = 1)
            r == Flag(p[2] = C - 2)
        IN  IF R = 1 THEN ret.kind = "IndexError" /\ matrix = pre
            ELSE IF C = 1
            THEN ret.kind = "IndexError" /\ matrix = Pad(pre, t, b, 0, 0)
            ELSE /\ ret.kind = "None"
                 /\ Rows(matrix) = R + t + b
                 /\ Cols(matrix) = C + l + r
                 /\ Grown(pre).matrix = Pad(pre, t, b, l, r)
                 /\ shape = ShapeOf(matrix)

\* A grid of four rows with its one live cell in row 1 and in an edge
\* column has grown by the top row only.
C5_Witness ==
    /\ GrowDone /\ OneLive(pre)
    /\ Rows(pre) >= 4 /\ Cols(pre) >= 3
    /\ TheLive(pre)[1] = 1 /\ TheLive(pre)[2] = 0
    /\ Rows(matrix) = Rows(pre) + 1
    /\ Cols(matrix) = Cols(pre)
    /\ ret.kind = "None"

(* C6.  On every grid with at least one row and one column,                *)
(* next_gen(update_grid=True) returns without raising.  The code indexes   *)
(* row 1 and column 1 unconditionally, so a grid with one row or one       *)
(* column raises IndexError.                                               *)
C6_GrowthNeverRaises ==
    (GrowDone /\ Rows(pre) >= 1 /\ Cols(pre) >= 1) => ret.kind = "None"

---------------------------------------------------------------------------
(* Reads and writes by coordinate.                                         *)

\* The coordinate (x, y) is valid for m: 0 <= x < rows and 0 <= y < cols.
ValidCoord(m, x, y) == x >= 0 /\ x < Rows(m) /\ y >= 0 /\ y < Cols(m)

\* What a caller reads as liveness from get_cell's result, taking it by its
\* truth value: the tuple coords is true, None is false.
ReadsAlive(r) == r.kind = "coords"

(* C3.  For a valid coordinate c, get_cell(c) right after                  *)
(* edit_state(c, True) reads alive and right after edit_state(c, False)    *)
(* reads dead.  get_cell returns coords whatever the cell holds, so the    *)
(* second half fails.                                                      *)
C3_ReadBackAfterEdit ==
    [][(/\ call.op = "edit_state"
        /\ ValidCoord(matrix, call.x, call.y)
        /\ call'.op = "get_cell"
        /\ call'.x = call.x /\ call'.y = call.y)
       => (ReadsAlive(ret') <=> call.state)]_vars

(* C4.  For a coordinate that is not valid (negative ones included),       *)
(* get_cell and edit_state report the failure (IndexError, or None from    *)
(* get_cell) and leave the cells and the dimensions as they were.          *)
(* A negative index down to -rows / -cols is accepted and counts from the  *)
(* end.                                                                    *)
C4_InvalidCoordRejected ==
    (call.op \in {"get_cell", "edit_state"} /\ ~ValidCoord(pre, call.x, call.y)) =>
        /\ IF call.op = "edit_state"
           THEN ret.kind = "IndexError"
           ELSE ret.kind \in {"None", "IndexError"}
        /\ matrix = pre
        /\ shape = ShapeOf(pre)

---------------------------------------------------------------------------
(* C7.  self.shape is the (rows, cols) of self.matrix in every state       *)
(* reached by next_gen, edit_state and load_conf calls, and after each of  *)
(* the four growth checks of a next_gen(update_grid=True).                 *)
C7_ShapeIsMatrixShape ==
    /\ shape = ShapeOf(matrix)
    /\ GrowDone =>
          LET g0 == [matrix |-> pre, shape |-> ShapeOf(pre), err |-> ""]
              g1 == GrowTop(g0)
              g2 == GrowBottom(g1)
              g3 == GrowLeft(g2)
              g4 == GrowRight(g3)
          IN  \A g \in {g1, g2, g3, g4} : g.shape = ShapeOf(g.matrix)

\* A next_gen(update_grid=True) that returned after growing the grid at
\* the bottom and at the right.
C7_Witness ==
    /\ GrowDone /\ ret.kind = "None"
    /\ Rows(matrix) = Rows(pre) + 1
    /\ Cols(matrix) = Cols(pre) + 1
    /\ At(pre, 0, 0) = 1
    /\ shape = <<Rows(pre) + 1, Cols(pre) + 1>>

---------------------------------------------------------------------------
(* C8.  The array get_matrix returned is a snapshot: edit_state and        *)
(* next_gen do not change its contents, and a write to it does not change  *)
(* the engine's grid.  get_matrix returns self.matrix itself, so until     *)
(* the engine rebinds self.matrix both fail.                               *)
C8_SnapshotIsNotAnAlias ==
    [][/\ (snap.held /\ call'.op \in {"edit_state", "next_gen"})
            => SnapContents' = SnapContents
       /\ call'.op = "holder_write" => matrix' = matrix]_vars

---------------------------------------------------------------------------
(* Patterns.                                                               *)

\* The 3x3 square centred on (r, c) has no cell of the outermost rows or
\* columns of m.
SquareClear(m, r, c) ==
    r - 1 >= 1 /\ r + 1 <= Rows(m) - 2 /\ c - 1 >= 1 /\ c + 1 <= Cols(m) - 2

(* C9.  A grid that is dead except for the horizontal blinker centred on   *)
(* (r, c), the 3x3 square around (r, c) clear of the outermost lines, has  *)
(* after one next_gen() exactly the vertical blinker, and the grid with    *)
(* that vertical blinker has after the next next_gen() exactly the         *)
(* horizontal one again.                                                   *)
C9_BlinkerPeriodTwo ==
    StepDone =>
        \A r \in 0..(Rows(pre) - 1) : \A c \in 0..(Cols(pre) - 1) :
            SquareClear(pre, r, c) =>
                /\ pre = GridOf(Rows(pre), Cols(pre), BlinkerH(r, c))
                      => matrix = GridOf(Rows(pre), Cols(pre), BlinkerV(r, c))
                /\ pre = GridOf(Rows(pre), Cols(pre), BlinkerV(r, c))
                      => matrix = GridOf(Rows(pre), Cols(pre), BlinkerH(r, c))

\* The second step of a blinker: the vertical blinker (reached only from
\* the horizontal seed) has turned back into the horizontal one.
C9_Witness ==
    /\ StepDone
    /\ \E r \in 0..(Rows(pre) - 1) : \E c \in 0..(Cols(pre) - 1) :
          /\ SquareClear(pre, r, c)
          /\ pre = GridOf(Rows(pre), Cols(pre), BlinkerV(r, c))
          /\ matrix = GridOf(Rows(pre), Cols(pre), BlinkerH(r, c))

(* C10.  A grid that is dead except for a 2x2 block, wherever the block    *)
(* lies, is unchanged by next_gen().  A block with a cell on an outermost  *)
(* row or column loses that cell (C1).                                     *)
C10_BlockIsStill ==
    StepDone =>
        \A r \in 0..(Rows(pre) - 2) : \A c \in 0..(Cols(pre) - 2) :
            pre = GridOf(Rows(pre), Cols(pre), Block(r, c)) => matrix = pre

---------------------------------------------------------------------------
(* C11.  Across next_gen and edit_state calls the row count and the column *)
(* count never decrease: edit_state and next_gen(update_grid=False) leave  *)
(* them as they were (and self.shape with them), and                       *)
(* next_gen(update_grid=True) only puts all-dead lines around the old      *)
(* grid, at most one on each side.                                         *)
C11_DimensionsOnlyGrow ==
    /\ call.op \in {"next_gen", "edit_state"} =>
          Rows(matrix) >= Rows(pre) /\ Cols(matrix) >= Cols(pre)
    /\ (call.op = "edit_state" \/ StepDone) =>
          ShapeOf(matrix) = ShapeOf(pre) /\ shape = ShapeOf(pre)
    /\ GrowDone =>
          \E t \in 0..1 : \E b \in 0..1 : \E l \in 0..1 : \E r \in 0..1 :
              /\ Grown(pre).matrix = Pad(pre, t, b, l, r)
              /\ ShapeOf(matrix) = <<Rows(pre) + t + b, Cols(pre) + l + r>>

\* A next_gen(update_grid=True) that returned with one row more at the top
\* and one column more at the left.
C11_Witness ==
    /\ GrowDone /\ ret.kind = "None"
    /\ At(pre, 1, 1) = 1 /\ At(pre, 0, 0) = 0 /\ At(pre, 0, 1) = 0 /\ At(pre, 1, 0) = 0
    /\ ShapeOf(pre) = <<2, 2>>
    /\ ShapeOf(matrix) = <<3, 3>>

---------------------------------------------------------------------------
(* The growth decision, side by side.                                      *)

RowLive(m, r) == \E c \in 0..(Cols(m) - 1) : At(m, r, c) = 1
ColLive(m, c) == \E r \in 0..(Rows(m) - 1) : At(m, r, c) = 1

\* The four sides as decided from the grid before the call.
SidesFromPre ==
    LET t == Flag(RowLive(pre, 1))
        b == Flag(RowLive(pre, Rows(pre) - 2))
        l == Flag(ColLive(pre, 1))
        r == Flag(ColLive(pre, Cols(pre) - 2))
    IN  /\ ret.kind = "None"
        /\ Grown(pre).matrix = Pad(pre, t, b, l, r)
        /\ ShapeOf(matrix) = <<Rows(pre) + t + b, Cols(pre) + l + r>>

\* Every live cell of m (there is one) lies on the first or the last row.
OnlyEdgeRows(m) ==
    LiveCells(m) # {} /\ \A p \in LiveCells(m) : p[1] \in {0, Rows(m) - 1}
OnlyEdgeCols(m) ==
    LiveCells(m) # {} /\ \A p \in LiveCells(m) : p[2] \in {0, Cols(m) - 1}

(* C16 as stated: on a grid with at least 2 rows and 2 columns the top     *)
(* grows iff row 1 is live, the bottom iff row rows-2, the left iff column *)
(* 1, the right iff column cols-2, each decided on the grid before the     *)
(* call; and live cells on the edge lines alone trigger no growth.  On a   *)
(* 2-line axis the edge lines are the inspected lines, so the last part    *)
(* fails there.                                                            *)
C16_SidesIndependentEdgeInert ==
    (GrowDone /\ Rows(pre) >= 2 /\ Cols(pre) >= 2) =>
        /\ SidesFromPre
        /\ OnlyEdgeRows(pre) => Rows(matrix) = Rows(pre)
        /\ OnlyEdgeCols(pre) => Cols(matrix) = Cols(pre)

(* C16, amended: the four decisions as stated; live cells on the edge      *)
(* lines alone trigger no growth along an axis of at least 3 lines.        *)
C16_SidesIndependent ==
    (GrowDone /\ Rows(pre) >= 2 /\ Cols(pre) >= 2) =>
        /\ SidesFromPre
        /\ (OnlyEdgeRows(pre) /\ Rows(pre) >= 3) => Rows(matrix) = Rows(pre)
        /\ (OnlyEdgeCols(pre) /\ Cols(pre) >= 3) => Cols(matrix) = Cols(pre)

\* Live cells on row 0 only, one of them in column 1 of four: no row is
\* added, the left column is, the right one is not.
C16_Witness ==
    /\ GrowDone /\ ret.kind = "None"
    /\ Rows(pre) >= 3 /\ Cols(pre) = 4
    /\ OnlyEdgeRows(pre) /\ At(pre, 0, 1) = 1 /\ ~ColLive(pre, 2)
    /\ ShapeOf(matrix) = <<Rows(pre), 5>>

---------------------------------------------------------------------------
(* C17.  After every next_gen call every cell of the first and last row    *)
(* and of the first and last column is dead, and a grid with fewer than 3  *)
(* rows or columns is entirely dead.  A next_gen(update_grid=True) that    *)
(* raises in __update_grid (C6) never reaches the rule and leaves live     *)
(* border cells.                                                           *)
C17_BorderDeadAfterNextGen ==
    call.op = "next_gen" =>
        /\ \A r \in 0..(Rows(matrix) - 1) : \A c \in 0..(Cols(matrix) - 1) :
              ~Interior(matrix, r, c) => At(matrix, r, c) = 0
        /\ (Rows(matrix) < 3 \/ Cols(matrix) < 3) => LiveCells(matrix) = {}

---------------------------------------------------------------------------
(* C18.  edit_state(c, v) with a valid c changes at most the cell at c:    *)
(* every other cell and the dimensions stay.                               *)
C18_EditTouchesOneCell ==
    (call.op = "edit_state" /\ ValidCoord(pre, call.x, call.y)) =>
        /\ ShapeOf(matrix) = ShapeOf(pre)
        /\ shape = ShapeOf(pre)
        /\ \A r \in 0..(Rows(pre) - 1) : \A c \in 0..(Cols(pre) - 1) :
              <<r, c>> # <<call.x, call.y>> => At(matrix, r, c) = At(pre, r, c)

\* An edit_state that killed a cell of a row in which another cell lives.
C18_Witness ==
    /\ call.op = "edit_state" /\ ValidCoord(pre, call.x, call.y)
    /\ ~call.state
    /\ At(pre, call.x, call.y) = 1 /\ At(matrix, call.x, call.y) = 0
    /\ \E c \in 0..(Cols(pre) - 1) : c # call.y /\ At(matrix, call.x, c) = 1

---------------------------------------------------------------------------
(* Growth on every step beside the automaton of the module docstring       *)
(* (core.py 2-10): an unbounded plane, every cell with eight neighbours.   *)

Around(live) ==
    UNION {{<<q[1] + d1, q[2] + d2>> : d1 \in -1..1, d2 \in -1..1} : q \in live}

PlaneNeighbours(live, p) ==
    Cardinality({d \in Offsets : <<p[1] + d[1], p[2] + d[2]>> \in live})

\* One generation on the plane, as a set of live coordinates.
PlaneStep(live) ==
    {p \in Around(live) :
        \/ PlaneNeighbours(live, p) = 3
        \/ p \in live /\ PlaneNeighbours(live, p) = 2}

\* Rows the top check of __update_grid inserts (core.py 64-66), and columns
\* the left check inserts after the two row checks (core.py 70-72).
InsertedTop(m, sh) ==
    Rows(GrowTop([matrix |-> m, shape |-> sh, err |-> ""]).matrix) - Rows(m)
InsertedLeft(m, sh) ==
    LET g == GrowBottom(GrowTop([matrix |-> m, shape |-> sh, err |-> ""]))
    IN  Cols(GrowLeft(g).matrix) - Cols(g.matrix)

\* A seed of at least 3 x 3 whose outermost rows and columns are dead.
InitPlane ==
    /\ \E r \in 3..PlaneDim : \E c \in 3..PlaneDim :
          /\ (r - 2) * (c - 2) <= PlaneCells
          /\ \E k \in Grids(r - 2, c - 2) : matrix = Pad(k, 1, 1, 1, 1)
    /\ shape = ShapeOf(matrix)
    /\ call = Call("init", 0, 0, FALSE, FALSE)
    /\ ret = Ret("None", <<>>)
    /\ pre = matrix
    /\ snap = NoSnap
    /\ engine = TRUE
    /\ file = NoFile
    /\ numpy = "1.24-1.26"
    /\ shell = NoShell
    /\ plane = LiveCells(matrix)
    /\ origin = <<0, 0>>

\* graphic.py 34: next_gen(update_grid = True), followed while the grid is
\* within PlaneCap; the plane takes its own step.
PlaneNextGen ==
    /\ WithinCap(NextGenOf(matrix, shape, TRUE).matrix, PlaneCap, PlaneCap * PlaneCap)
    /\ NextGenGrid(TRUE)
    /\ plane' = PlaneStep(plane)
    /\ origin' = <<origin[1] + InsertedTop(matrix, shape),
                   origin[2] + InsertedLeft(matrix, shape)>>
    /\ UNCHANGED <<engine, file, numpy, shell>>

SpecPlane == InitPlane /\ [][PlaneNextGen]_vars

(* C15.  With growth on every step, from a seed of at least 3 x 3 with     *)
(* dead outermost lines: after any number of next_gen(update_grid=True)    *)
(* calls the live cells of the grid, moved back by the rows inserted at    *)
(* the top and the columns inserted at the left so far, are the live cells *)
(* of the unbounded automaton after as many generations from the seed.     *)
C15_NeverClipped ==
    {<<p[1] - origin[1], p[2] - origin[2]>> : p \in LiveCells(matrix)} = plane

\* After two or more calls the pattern lives above or left of where the seed
\* grid's first row or column was.
C15_Witness ==
    /\ GrowDone /\ ret.kind = "None"
    /\ pre # matrix
    /\ \E p \in plane : p[1] < 0 \/ p[2] < 0
    /\ \E p \in LiveCells(matrix) : p[1] < origin[1] \/ p[2] < origin[2]

---------------------------------------------------------------------------
(* Configuration files as text (core.py 148-166).                          *)
(*                                                                         *)
(* A text is a sequence of characters, a file a record of whether the path *)
(* exists and of its text.  numpy is the generation of the installed       *)
(* library, which the source does not pin and on which two steps depend:   *)
(* the repr of an array element inside str(list(row)), "1" up to 1.26 and  *)
(* "np.int64(1)" from 2.0, and np.asarray of rows of unequal length, an    *)
(* object array before 1.24 and ValueError from 1.24.                      *)

NumpyBuilds == {"<1.24", "1.24-1.26", ">=2.0"}

Digits == <<"0", "1", "2", "3", "4", "5", "6", "7", "8", "9">>
IsDigit(ch) == \E i \in 1..10 : Digits[i] = ch
DigitVal(ch) == (CHOOSE i \in 1..10 : Digits[i] = ch) - 1
\* repr of a cell value (the model's cells are below 10)
Digit(v) == Digits[v + 1]

\* repr(np.int64(v)) as str(list(...)) shows it
ReprInt(v, np) ==
    IF np = ">=2.0"
    THEN <<"n", "p", ".", "i", "n", "t", "6", "4", "(", Digit(v), ")">>
    ELSE <<Digit(v)>>

RECURSIVE JoinReprs(_, _)
\* ", ".join of the elements' reprs
JoinReprs(row, np) ==
    IF row = <<>> THEN <<>>
    ELSE IF Len(row) = 1 THEN ReprInt(row[1], np)
    ELSE ReprInt(row[1], np) \o <<",", " ">> \o JoinReprs(Tail(row), np)

\* core.py 153: str(list(self.matrix.astype(int)[i])) + '\n'
StrList(row, np) == <<"[">> \o JoinReprs(row, np) \o <<"]", "\n">>

RECURSIVE WriteLines(_, _)
\* core.py 153: f.writelines of one such line per row
WriteLines(m, np) ==
    IF m = <<>> THEN <<>> ELSE StrList(m[1], np) \o WriteLines(Tail(m), np)

\* Where the lines of a text end: at every newline, and at the last
\* character when that is not one.
LineEnds(text) ==
    {k \in 1..Len(text) : text[k] = "\n" \/ k = Len(text)}

\* f.readlines(): the text cut after every newline, newlines kept
ReadLines(text) ==
    LET ends == LineEnds(text)
        End(i) == CHOOSE e \in ends : Cardinality({x \in ends : x <= e}) = i
    IN  [i \in 1..Cardinality(ends) |->
            SubSeq(text, IF i = 1 THEN 1 ELSE End(i - 1) + 1, End(i))]

Blank == {" ", "\n"}

JsonError == [err |-> TRUE, val |-> <<>>]

RECURSIVE JsonScan(_, _, _, _, _)
\* core.py 164: json.loads(line), for a line holding a flat list of
\* non-negative integers: whitespace is free between tokens, a number has no
\* leading zero, no comma trails, nothing but whitespace follows the list.
\* Any other text is a JSONDecodeError here (the texts of the model hold no
\* bare number, no nested list and no other JSON value).
JsonScan(line, k, st, acc, cur) ==
    IF k > Len(line)
    THEN IF st = "end" THEN [err |-> FALSE, val |-> acc] ELSE JsonError
    ELSE LET ch == line[k]
         IN  CASE st = "start" ->
                    IF ch \in Blank THEN JsonScan(line, k + 1, "start", acc, cur)
                    ELSE IF ch = "[" THEN JsonScan(line, k + 1, "open", acc, cur)
                    ELSE JsonError
               [] st \in {"open", "sep"} ->
                    IF ch \in Blank THEN JsonScan(line, k + 1, st, acc, cur)
                    ELSE IF IsDigit(ch) THEN JsonScan(line, k + 1, "num", acc, DigitVal(ch))
                    ELSE IF ch = "]" /\ st = "open" THEN JsonScan(line, k + 1, "end", acc, cur)
                    ELSE JsonError
               [] st = "num" ->
                    IF IsDigit(ch)
                    THEN IF cur = 0 THEN JsonError
                         ELSE JsonScan(line, k + 1, "num", acc, 10 * cur + DigitVal(ch))
                    ELSE IF ch \in Blank THEN JsonScan(line, k + 1, "after", acc \o <<cur>>, 0)
                    ELSE IF ch = "," THEN JsonScan(line, k + 1, "sep", acc \o <<cur>>, 0)
                    ELSE IF ch = "]" THEN JsonScan(line, k + 1, "end", acc \o <<cur>>, 0)
                    ELSE JsonError
               [] st = "after" ->
                    IF ch \in Blank THEN JsonScan(line, k + 1, "after", acc, cur)
                    ELSE IF ch = "," THEN JsonScan(line, k + 1, "sep", acc, cur)
                    ELSE IF ch = "]" THEN JsonScan(line, k + 1, "end", acc, cur)
                    ELSE JsonError
               [] st = "end" ->
                    IF ch \in Blank THEN JsonScan(line, k + 1, "end", acc, cur)
                    ELSE JsonError

JsonLoads(line) == JsonScan(line, 1, "start", <<>>, 0)

RECURSIVE Strip(_)
\* core.py 160: line.strip('\n')
Strip(line) ==
    IF line = <<>> THEN line
    ELSE IF line[1] = "\n" THEN Strip(Tail(line))
    ELSE IF line[Len(line)] = "\n" THEN Strip(SubSeq(line, 1, Len(line) - 1))
    ELSE line

NotSpace(ch) == ch # " "

\* core.py 162: [0 if val == custom_repr[False] else 1 for val in line if val != ' ']
CustomRow(line, dead) ==
    LET kept == SelectSeq(line, NotSpace)
    IN  [j \in 1..Len(kept) |-> IF kept[j] = dead THEN 0 ELSE 1]

\* The default alive_char and dead_char of core.py 31, and the custom_config
\* of core.py 180-183: '#' alive, '-' dead.
AliveChar == "#"
DeadChar == "-"

\* core.py 165-166: np.asarray(conf) and the shape __reload_shape stores.  Rows
\* of one length make a 2-D array; no row at all makes an empty 1-D array;
\* rows of unequal length make a 1-D array of lists or raise, by the build.
AsArray(conf, np) ==
    IF conf = <<>> THEN [err |-> "", matrix |-> <<>>, shape |-> <<0>>]
    ELSE IF \A i \in 1..Len(conf) : Len(conf[i]) = Len(conf[1])
    THEN [err |-> "", matrix |-> conf, shape |-> <<Len(conf), Len(conf[1])>>]
    ELSE IF np = "<1.24"
    THEN [err |-> "", matrix |-> conf, shape |-> <<Len(conf)>>]
    ELSE [err |-> "ValueError", matrix |-> <<>>, shape |-> <<>>]

\* core.py 155-166: what load_conf(path, custom_repr) computes from the file.
LoadFrom(f, custom, np) ==
    IF ~f.exists THEN [err |-> "AssertionError", matrix |-> <<>>, shape |-> <<>>]
    ELSE LET lines == ReadLines(f.text)
         IN  IF custom
             THEN AsArray([i \in 1..Len(lines) |-> CustomRow(Strip(lines[i]), DeadChar)], np)
             ELSE IF \E i \in 1..Len(lines) : JsonLoads(lines[i]).err
             THEN [err |-> "JSONDecodeError", matrix |-> <<>>, shape |-> <<>>]
             ELSE AsArray([i \in 1..Len(lines) |-> JsonLoads(lines[i]).val], np)

LoadOp(custom) == IF custom THEN "load_conf(path, custom_repr)" ELSE "load_conf(path)"
InitOp(custom) == IF custom THEN "init(config, custom_config)" ELSE "init(config)"

\* core.py 31-50 with config given: load_conf runs inside __init__, and an
\* exception it raises leaves the caller without an engine.
Construct(custom) ==
    /\ ~engine
    /\ \E r \in {LoadFrom(file, custom, numpy)} :
          /\ engine' = (r.err = "")
          /\ matrix' = r.matrix
          /\ shape' = r.shape
          /\ ret' = Ret(IF r.err = "" THEN "None" ELSE r.err, <<>>)
    /\ call' = Call(InitOp(custom), 0, 0, FALSE, FALSE)
    /\ pre' = matrix
    /\ UNCHANGED <<snap, file, numpy, shell, plane, origin>>

\* core.py 155-166 on an engine: self.matrix is assigned only when nothing
\* was raised before.
LoadFile(custom) ==
    /\ engine
    /\ \E r \in {LoadFrom(file, custom, numpy)} :
          /\ matrix' = IF r.err = "" THEN r.matrix ELSE matrix
          /\ shape' = IF r.err = "" THEN r.shape ELSE shape
          /\ ret' = Ret(IF r.err = "" THEN "None" ELSE r.err, <<>>)
    /\ call' = Call(LoadOp(custom), 0, 0, FALSE, FALSE)
    /\ pre' = matrix
    /\ UNCHANGED <<snap, engine, file, numpy, shell, plane, origin>>

\* core.py 148-153 with a path: open(path, 'w') empties the file, then the
\* lines are built and written.  astype(int) raises ValueError on a 1-D array
\* of lists.
NewConf ==
    /\ engine
    /\ IF Len(shape) = 2 \/ matrix = <<>>
       THEN /\ file' = [exists |-> TRUE, text |-> WriteLines(matrix, numpy)]
            /\ ret' = Ret("None", <<>>)
       ELSE /\ file' = [exists |-> TRUE, text |-> <<>>]
            /\ ret' = Ret("ValueError", <<>>)
    /\ call' = Call("new_conf", 0, 0, FALSE, FALSE)
    /\ pre' = matrix
    /\ UNCHANGED <<matrix, shape, snap, engine, numpy, shell, plane, origin>>

\* Sequences of 1..FileLines rows of 1..FileWidth elements of set vals, with
\* at most FileCells elements in all.
RowsOver(vals) ==
    UNION {[1..w -> vals] : w \in 1..FileWidth}
RECURSIVE TotalLen(_)
TotalLen(rl) == IF rl = <<>> THEN 0 ELSE Len(rl[1]) + TotalLen(Tail(rl))
RowListsOver(vals) ==
    {rl \in UNION {[1..n -> RowsOver(vals)] : n \in 1..FileLines} :
        TotalLen(rl) <= FileCells}

RECURSIVE CustomText(_)
\* One line per row, the characters as they are, each line ended by a newline.
CustomText(rl) ==
    IF rl = <<>> THEN <<>> ELSE rl[1] \o <<"\n">> \o CustomText(Tail(rl))

\* The files a configuration path may hold: none; bracketed lists of 0, 1, 2,
\* rectangular or not; lines of '#', '-' and a third character.
Files ==
    {NoFile}
    \cup {[exists |-> TRUE, text |-> WriteLines(rl, "1.24-1.26")] : rl \in RowListsOver(0..2)}
    \cup {[exists |-> TRUE, text |-> CustomText(rl)] : rl \in RowListsOver({"#", "-", "x"})}

\* Before GameOfLife(config = path): no engine yet.
InitConf ==
    /\ engine = FALSE
    /\ matrix = <<>>
    /\ shape = <<>>
    /\ call = Call("start", 0, 0, FALSE, FALSE)
    /\ ret = Ret("None", <<>>)
    /\ pre = <<>>
    /\ snap = NoSnap
    /\ file \in Files
    /\ numpy \in NumpyBuilds
    /\ shell = NoShell
    /\ plane = {}
    /\ origin = <<0, 0>>

\* The array a load leaves has at most LoadCells cells.
LoadWithinCap(custom) == TotalLen(LoadFrom(file, custom, numpy).matrix) <= LoadCells

ConfConstruct == \E custom \in BOOLEAN : LoadWithinCap(custom) /\ Construct(custom)
ConfLoad == \E custom \in BOOLEAN : LoadWithinCap(custom) /\ LoadFile(custom)
ConfNew == NewConf

NextConf == ConfConstruct \/ ConfLoad \/ ConfNew

SpecConf == InitConf /\ [][NextConf]_vars

---------------------------------------------------------------------------
(* C13.  Round trip: new_conf on any (2-D) grid followed by load_conf of   *)
(* that file with no custom_repr returns and leaves a matrix of the same   *)
(* dimensions with the same state in every cell.  On numpy >= 2.0 new_conf *)
(* writes "[np.int64(0), np.int64(1)]", which json.loads rejects.          *)
C13_RoundTrip ==
    [][(/\ call.op = "new_conf" /\ ret.kind = "None" /\ Len(shape) = 2
        /\ call'.op = LoadOp(FALSE))
       => (ret'.kind = "None" /\ matrix' = matrix /\ shape' = shape)]_vars

\* The same with the library before 2.0 (this part of the round trip holds).
C13_RoundTripBefore2 ==
    [][(/\ call.op = "new_conf" /\ ret.kind = "None" /\ Len(shape) = 2
        /\ numpy # ">=2.0"
        /\ call'.op = LoadOp(FALSE))
       => (ret'.kind = "None" /\ matrix' = matrix /\ shape' = shape)]_vars

\* A round trip that was made, on a grid with a live and a dead cell.
C13_Reached ==
    /\ call.op = LoadOp(FALSE) /\ ret.kind = "None" /\ Len(shape) = 2
    /\ file = [exists |-> TRUE, text |-> WriteLines(matrix, numpy)]
    /\ \E i \in 1..Len(matrix) : \E j \in 1..Len(matrix[i]) : matrix[i][j] = 1
    /\ \E i \in 1..Len(matrix) : \E j \in 1..Len(matrix[i]) : matrix[i][j] = 0

---------------------------------------------------------------------------
(* What the configuration text holds, read without the loader's leniency.  *)

\* The lines of bracketed lists hold a rectangular matrix of 0 and 1.
JsonWellFormed(text) ==
    LET lines == ReadLines(text)
    IN  /\ lines # <<>>
        /\ \A i \in 1..Len(lines) :
              /\ ~JsonLoads(lines[i]).err
              /\ Len(JsonLoads(lines[i]).val) = Len(JsonLoads(lines[1]).val)
              /\ Len(JsonLoads(lines[i]).val) >= 1
              /\ \A j \in 1..Len(JsonLoads(lines[i]).val) :
                    JsonLoads(lines[i]).val[j] \in {0, 1}

\* The lines hold a rectangular matrix of the two symbols (spaces between
\* symbols are separators).
CustomWellFormed(text) ==
    LET lines == ReadLines(text)
        Symbols(i) == SelectSeq(Strip(lines[i]), NotSpace)
    IN  /\ lines # <<>>
        /\ \A i \in 1..Len(lines) :
              /\ Len(Symbols(i)) = Len(Symbols(1))
              /\ Len(Symbols(i)) >= 1
              /\ \A j \in 1..Len(Symbols(i)) : Symbols(i)[j] \in {AliveChar, DeadChar}

WellFormed(f, custom) ==
    /\ f.exists
    /\ IF custom THEN CustomWellFormed(f.text) ELSE JsonWellFormed(f.text)

(* C14.  Construction from a configuration source raises, and leaves no    *)
(* engine, whenever the source is missing or its content is not a          *)
(* rectangular matrix of 0 and 1 (rows of unequal length, an element such  *)
(* as 2, a character that is neither symbol of the custom alphabet).  The  *)
(* code accepts an element 2 and reads any other character as alive.       *)
C14_BadSourceFailsConstruction ==
    \A custom \in BOOLEAN :
        (call.op = InitOp(custom) /\ ~WellFormed(file, custom)) =>
            (ret.kind # "None" /\ ~engine)

---------------------------------------------------------------------------
(* __shell_run (core.py 115-131), one statement per step.  shell.pc names  *)
(* the statement about to run; shell.screen is what the terminal shows     *)
(* since it was last cleared.  An interruption is a SIGINT (Ctrl-C).       *)
(* Python raises KeyboardInterrupt for it at the statement being run,      *)
(* except while os.system waits for its command (core.py 52): the C        *)
(* function system() ignores SIGINT in the calling process until the       *)
(* command ends, so that signal raises nothing; the command, in the same   *)
(* foreground process group, receives it too.                              *)

\* core.py 106-113: per row, each cell's character and a space, then a newline.
ViewLine(row) ==
    [k \in 1..(2 * Len(row) + 1) |->
        IF k = 2 * Len(row) + 1 THEN "\n"
        ELSE IF k % 2 = 0 THEN " "
        ELSE IF row[(k + 1) \div 2] # 0 THEN AliveChar ELSE DeadChar]

RECURSIVE View(_)
View(m) == IF m = <<>> THEN <<>> ELSE ViewLine(m[1]) \o View(Tail(m))

\* What a print leaves on the terminal.
Printed(kind, n, text) == [kind |-> kind, n |-> n, text |-> text]
\* core.py 124: print(f'\n\nGeneration [{i}]')
LabelLine(i) == Printed("Generation", <<i>>, <<>>)
\* core.py 125: print(self.view())
ViewLines(m) == Printed("view", <<>>, View(m) \o <<"\n">>)
\* core.py 126: print(f'x: {self.shape[0]}\ny: {self.shape[1]}\n')
DimLines(sh) == Printed("x, y", sh, <<>>)

LoopPcs == {"clear", "next_gen", "label", "view", "dims", "sleep", "incr"}

\* run() on an engine: core.py 119, i = 1, at the head of the loop.
InitShell ==
    /\ \E r \in 1..ShellDim : \E c \in 1..ShellDim :
          /\ r * c <= ShellCells
          /\ matrix \in Grids(r, c)
    /\ shape = ShapeOf(matrix)
    /\ call = Call("run", 0, 0, FALSE, FALSE)
    /\ ret = Ret("None", <<>>)
    /\ pre = matrix
    /\ snap = NoSnap
    /\ engine = TRUE
    /\ file = NoFile
    /\ numpy = "1.24-1.26"
    /\ shell = [NoShell EXCEPT !.pc = "clear", !.i = 1, !.seed = matrix]
    /\ plane = {}
    /\ origin = <<0, 0>>

ShellFrame == UNCHANGED <<matrix, shape, call, ret, pre, snap, engine, file, numpy, plane, origin>>

\* core.py 122: self.__clear_shell(); followed for ShellGens iterations.
ShellClear ==
    /\ shell.pc = "clear" /\ shell.i <= ShellGens
    /\ shell' = [shell EXCEPT !.pc = "next_gen", !.screen = <<>>]
    /\ ShellFrame

\* core.py 123: self.next_gen()
ShellNextGen ==
    /\ shell.pc = "next_gen"
    /\ NextGenGrid(FALSE)
    /\ shell' = [shell EXCEPT !.pc = "label", !.calls = @ + 1]
    /\ UNCHANGED <<engine, file, numpy, plane, origin>>

\* core.py 124
ShellLabel ==
    /\ shell.pc = "label"
    /\ shell' = [shell EXCEPT !.pc = "view", !.screen = Append(@, LabelLine(shell.i))]
    /\ ShellFrame

\* core.py 125
ShellView ==
    /\ shell.pc = "view"
    /\ shell' = [shell EXCEPT !.pc = "dims", !.screen = Append(@, ViewLines(matrix)),
                              !.shown = @ + 1]
    /\ ShellFrame

\* core.py 126
ShellDims ==
    /\ shell.pc = "dims"
    /\ shell' = [shell EXCEPT !.pc = "sleep", !.screen = Append(@, DimLines(shape))]
    /\ ShellFrame

\* core.py 127: time.sleep(wait_time)
ShellSleep ==
    /\ shell.pc = "sleep"
    /\ shell' = [shell EXCEPT !.pc = "incr"]
    /\ ShellFrame

\* core.py 128: i += 1, and back to the head of the loop
ShellIncr ==
    /\ shell.pc = "incr"
    /\ shell' = [shell EXCEPT !.pc = "clear", !.i = @ + 1]
    /\ ShellFrame

\* A SIGINT for which KeyboardInterrupt is raised in the try block, before
\* the statement at pc has had its effect: control passes to the handler
\* (core.py 129).
Interrupt ==
    /\ shell.pc \in LoopPcs
    /\ shell' = [shell EXCEPT !.pc = "handler", !.sigint = TRUE, !.interrupted = TRUE]
    /\ ShellFrame

\* A SIGINT that arrives while the os.system of core.py 122 (through core.py
\* 52) waits for 'clear': ignored by the process, nothing is raised and the
\* loop goes on; 'clear' has cleared the terminal or was killed before.
SigintInSystem ==
    /\ shell.pc = "clear" /\ shell.i <= ShellGens
    /\ \E scr \in {<<>>, shell.screen} :
          shell' = [shell EXCEPT !.pc = "next_gen", !.sigint = TRUE, !.screen = scr]
    /\ ShellFrame

\* core.py 130: self.__clear_shell() in the handler
HandlerClear ==
    /\ shell.pc = "handler"
    /\ shell' = [shell EXCEPT !.pc = "exit", !.screen = <<>>]
    /\ ShellFrame

\* core.py 131: sys.exit(1)
Exit ==
    /\ shell.pc = "exit"
    /\ shell' = [shell EXCEPT !.pc = "done", !.exited = TRUE, !.status = 1]
    /\ ShellFrame

NextShell ==
    \/ ShellClear \/ ShellNextGen \/ ShellLabel \/ ShellView \/ ShellDims
    \/ ShellSleep \/ ShellIncr \/ Interrupt \/ SigintInSystem \/ HandlerClear \/ Exit

SpecShell == InitShell /\ [][NextShell]_vars

\* The handler, once entered, runs to the exit: nothing else in the process
\* is scheduled.
SpecShellLive == SpecShell /\ WF_vars(HandlerClear) /\ WF_vars(Exit)

RECURSIVE Generation(_, _)
\* The seed after k applications of next_gen().
Generation(seed, k) ==
    IF k = 0 THEN seed
    ELSE NextGenOf(Generation(seed, k - 1), ShapeOf(seed), FALSE).matrix

\* The last thing of a kind printed on the terminal, if any.
LastPrinted(kind) ==
    {shell.screen[k] : k \in {k \in 1..Len(shell.screen) :
        /\ shell.screen[k].kind = kind
        /\ \A j \in (k + 1)..Len(shell.screen) : shell.screen[j].kind # kind}}

\* While an iteration's grid is on the terminal: it is the k-th grid shown,
\* it is generation k of the seed, its label is k, and next_gen has been
\* called k times.
ShownIsGeneration ==
    shell.pc \in {"dims", "sleep", "incr"} =>
        /\ LastPrinted("Generation") = {LabelLine(shell.shown)}
        /\ LastPrinted("view") = {ViewLines(Generation(shell.seed, shell.shown))}
        /\ shell.calls = shell.shown
\* Between next_gen and the display of an iteration, one more call than grids
\* shown; before next_gen, as many.
NextGenBeforeDisplay ==
    /\ shell.pc \in {"label", "view"} => shell.calls = shell.shown + 1
    /\ shell.pc \in {"clear", "next_gen"} => shell.calls = shell.shown
\* The process has exited only after an interruption, with the terminal
\* cleared and a status other than 0.
ExitAfterClear ==
    shell.exited => (shell.sigint /\ shell.screen = <<>> /\ shell.status # 0)

(* C19.  In the shell loop every iteration calls next_gen before it shows  *)
(* the grid, so the k-th grid shown is generation k and is labelled k;     *)
(* once an interruption has arrived, at any point of an iteration, no      *)
(* next_gen is called any more, the terminal is cleared, and only then the *)
(* process exits, with a status other than 0.  An interruption that        *)
(* arrives while the loop's os.system('clear') runs is ignored, and the    *)
(* loop calls next_gen again.                                              *)
C19_ShellLoop ==
    /\ [](ShownIsGeneration /\ NextGenBeforeDisplay /\ ExitAfterClear)
    /\ [][shell.sigint => (shell'.calls = shell.calls /\ matrix' = matrix)]_vars
    /\ (shell.sigint ~> shell.exited)

\* The same for the interruptions that reach Python as KeyboardInterrupt
\* (this holds).
C19_OnKeyboardInterrupt ==
    /\ [](ShownIsGeneration /\ NextGenBeforeDisplay /\ ExitAfterClear)
    /\ [][shell.interrupted => (shell'.calls = shell.calls /\ matrix' = matrix)]_vars
    /\ (shell.interrupted ~> shell.exited)

=============================================================================
